---- MODULE Spec2Model ----
(***************************************************************************)
(* Model of src/bow.py: the Apollo REST facade.  One request is handled at *)
(* a time (requests share no state); a POST handler is followed step by    *)
(* step through its try block, its except block and the header decorator.  *)
(***************************************************************************)
EXTENDS Integers, Sequences, FiniteSets, TLC

(***************************************************************************)
(* Bounds of the model.                                                    *)
(***************************************************************************)
\* timedelta values have days in -1..MaxDays
MaxDays == 1

(***************************************************************************)
(* Program constants (src/bow.py:14, 44-46).                               *)
(***************************************************************************)
OK_STATUS == 200
OK_CREATE_STATUS == 201
DEF_ERROR_CODE == 500

(***************************************************************************)
(* State.                                                                  *)
(***************************************************************************)
VARIABLES
    pc,            \* where the current request is
    req,           \* the request: method, path, body
    route,         \* the view the router chose
    request_json,  \* request.get_json()
    metadata,      \* the view's metadata dict
    exc,           \* the exception caught in the view, if any
    calls,         \* backend invocations of this request
    steps,         \* the steps of this request, in order
    dump,          \* the last serialization of an envelope
    ret,           \* make_response(f(*args, **kwargs))
    resp,          \* the response sent
    asscalar,      \* whether numpy float scalars have asscalar()
    seen404,       \* <<path, body>> of every page_not_found response so far
    lasterr        \* the view and the body keys of the latest 500 response

vars ==
    <<pc, req, route, request_json, metadata, exc, calls, steps, dump, ret,
      resp, asscalar, seen404, lasterr>>

(***************************************************************************)
(* Python values.  One record shape for all kinds so that values of        *)
(* different kinds can be compared.                                        *)
(*   kind  "str" "int" "float" "bool" "none" : JSON-native                 *)
(*         "npint" "npfloat"                 : numpy scalars               *)
(*         "datetime" "date" "timedelta"     : datetime module             *)
(*         "other"                           : any other object            *)
(*   n     the integer of an int/npint, 0/1 of a bool, the days of a       *)
(*         timedelta                                                       *)
(*   s     the text of a str, the repr of a float                          *)
(*   ymd   <<year, month, day>> of a date or datetime                      *)
(*   sec   seconds since midnight of a datetime, seconds of a timedelta    *)
(***************************************************************************)
PyVal(kind, n, s, ymd, sec) ==
    [kind |-> kind, n |-> n, s |-> s, ymd |-> ymd, sec |-> sec]

NoDate == <<0, 0, 0>>

PyStr(s) == PyVal("str", 0, s, NoDate, 0)
PyInt(n) == PyVal("int", n, "", NoDate, 0)
PyFloat(s) == PyVal("float", 0, s, NoDate, 0)
PyTrue == PyVal("bool", 1, "", NoDate, 0)
PyNone == PyVal("none", 0, "", NoDate, 0)
NpInt(n) == PyVal("npint", n, "", NoDate, 0)
NpFloat(s) == PyVal("npfloat", 0, s, NoDate, 0)
PyDate(ymd) == PyVal("date", 0, "", ymd, 0)
PyDatetime(ymd, sec) == PyVal("datetime", 0, "", ymd, sec)
PyTimedelta(days, sec) == PyVal("timedelta", days, "", NoDate, sec)
PyOther == PyVal("other", 0, "", NoDate, 0)

\* VERSION = 1.0
VERSION == PyFloat("1.0")

(***************************************************************************)
(* JSON text of a value: what ends up in a response body.                  *)
(***************************************************************************)
JVal(j, n, s) == [j |-> j, n |-> n, s |-> s]

J_str(s) == JVal("string", 0, s)
J_num(n) == JVal("number", n, "")
J_float(s) == JVal("number", 0, s)
J_true == JVal("true", 0, "")
J_false == JVal("false", 0, "")
J_null == JVal("null", 0, "")

(***************************************************************************)
(* isoformat() of the datetime module, for whole seconds.                  *)
(***************************************************************************)
Pad2(x) == IF x < 10 THEN "0" \o ToString(x) ELSE ToString(x)

Pad4(x) ==
    IF x < 10 THEN "000" \o ToString(x)
    ELSE IF x < 100 THEN "00" \o ToString(x)
    ELSE IF x < 1000 THEN "0" \o ToString(x)
    ELSE ToString(x)

\* date.isoformat(): YYYY-MM-DD
date_isoformat(ymd) == Pad4(ymd[1]) \o "-" \o Pad2(ymd[2]) \o "-" \o Pad2(ymd[3])

\* time.isoformat(): HH:MM:SS of a number of seconds since midnight
time_isoformat(sec) ==
    Pad2(sec \div 3600) \o ":" \o Pad2((sec % 3600) \div 60) \o ":" \o Pad2(sec % 60)

\* datetime.isoformat(): date, "T", time
datetime_isoformat(ymd, sec) == date_isoformat(ymd) \o "T" \o time_isoformat(sec)

(***************************************************************************)
(* Exceptions: a flag and str(e).                                          *)
(***************************************************************************)
Returned(v) == [raised |-> FALSE, msg |-> "", val |-> v]
Raised(msg) == [raised |-> TRUE, msg |-> msg, val |-> PyNone]

(***************************************************************************)
(* The JSON encoders.  json.JSONEncoder serializes the native kinds itself *)
(* and hands every other object to default(); its own default() raises     *)
(* TypeError.                                                              *)
(***************************************************************************)
NativeKinds == {"str", "int", "float", "bool", "none"}

NumpyIntKinds == {"npint"}

NumpyFloatKinds == {"npfloat"}

native_json(v) ==
    CASE v.kind = "str" -> J_str(v.s)
      [] v.kind = "int" -> J_num(v.n)
      [] v.kind = "float" -> J_float(v.s)
      [] v.kind = "bool" -> IF v.n = 1 THEN J_true ELSE J_false
      [] OTHER -> J_null

JSONEncoder_default(obj) == Raised("Object is not JSON serializable")

\* CustomizedEncoder.default.  has_asscalar says whether the numpy build gives
\* its float scalars an asscalar() method; either build is possible.
CustomizedEncoder_default(obj, has_asscalar) ==
    IF obj.kind \in NumpyIntKinds THEN Returned(PyInt(obj.n))
    ELSE IF obj.kind \in NumpyFloatKinds THEN
        IF has_asscalar THEN Returned(PyFloat(obj.s))
        ELSE Raised("object has no attribute 'asscalar'")
    ELSE IF obj.kind = "datetime" THEN
        Returned(PyStr(datetime_isoformat(obj.ymd, obj.sec)))
    ELSE IF obj.kind = "date" THEN Returned(PyStr(date_isoformat(obj.ymd)))
    ELSE IF obj.kind = "timedelta" THEN
        \* datetime.min + obj overflows below year 1; .time() drops the days
        IF obj.n < 0 THEN Raised("date value out of range")
        ELSE Returned(PyStr(time_isoformat(obj.sec)))
    ELSE Raised("default() takes 2 positional arguments but 3 were given")

\* app.json_encoder = CustomizedEncoder
app_json_encoder == "CustomizedEncoder"

Encoded(j) == [raised |-> FALSE, msg |-> "", out |-> j]

EncodeFailed(msg) == [raised |-> TRUE, msg |-> msg, out |-> J_null]

\* The encoding of one value under encoder class cls.
encode(v, cls, has_asscalar) ==
    IF v.kind \in NativeKinds THEN Encoded(native_json(v))
    ELSE LET d == IF cls = "CustomizedEncoder"
                  THEN CustomizedEncoder_default(v, has_asscalar)
                  ELSE JSONEncoder_default(v)
         IN  IF d.raised THEN EncodeFailed(d.msg) ELSE Encoded(native_json(d.val))

EmptyDict == [k \in {} |-> PyNone]

EmptyBody == [k \in {} |-> J_null]

\* json.dumps(d, cls=cls): the body, or the exception of a value it cannot
\* encode.
json_dumps(d, cls, has_asscalar) ==
    LET bad == {k \in DOMAIN d : encode(d[k], cls, has_asscalar).raised}
    IN  IF bad # {}
        THEN [raised |-> TRUE,
              msg |-> encode(d[CHOOSE k \in bad : TRUE], cls, has_asscalar).msg,
              body |-> EmptyBody]
        ELSE [raised |-> FALSE, msg |-> "",
              body |-> [k \in DOMAIN d |-> encode(d[k], cls, has_asscalar).out]]

\* d[k] = v
Put(d, k, v) == [x \in DOMAIN d \cup {k} |-> IF x = k THEN v ELSE d[x]]

(***************************************************************************)
(* Responses.  from: "handler" (a view function returned it),              *)
(* "errorhandler" (page_not_found), "framework" (the router answered) or   *)
(* "none" (no response of this program).                                   *)
(***************************************************************************)
NoHeaders == [h \in {} |-> ""]

Response(from, status, mimetype, body, headers) ==
    [from |-> from, status |-> status, mimetype |-> mimetype, body |-> body,
     headers |-> headers]

NoResponse == Response("none", 0, "", EmptyBody, NoHeaders)

\* Response(json.dumps(metadata), status=..., mimetype='application/json')
json_response(status, body) ==
    Response("handler", status, "application/json", body,
             [h \in {"Content-Type"} |-> "application/json"])

\* jsonify(d): a 200 response of the body
jsonify_response(body) == json_response(200, body)

\* redirect(location): 302 with a Location header and an HTML body
redirect(location) ==
    Response("handler", 302, "text/html", EmptyBody,
             [h \in {"Content-Type", "Location"} |->
                 IF h = "Location" THEN location ELSE "text/html"])

(***************************************************************************)
(* Requests.                                                               *)
(***************************************************************************)
Methods == {"GET", "POST"}

\* The routing table: path -> view function and its methods.
url_map ==
    [p \in {"/", "/version", "/about", "/get-table", "/join", "/union",
            "/create-table"} |->
        CASE p = "/" -> [view |-> "root", methods |-> {"GET"}]
          [] p = "/version" -> [view |-> "version", methods |-> {"GET"}]
          [] p = "/about" -> [view |-> "about", methods |-> {"GET"}]
          [] p = "/get-table" -> [view |-> "get_table", methods |-> {"POST"}]
          [] p = "/join" -> [view |-> "join", methods |-> {"POST"}]
          [] p = "/union" -> [view |-> "union", methods |-> {"POST"}]
          [] OTHER -> [view |-> "create_table", methods |-> {"POST"}]]

\* Requested paths: the routes and two paths outside the routing table.
Paths == DOMAIN url_map \cup {"/nope", "/get-table/x"}

PostViews == {"get_table", "join", "union", "create_table"}

\* Parsed request bodies.  kind: "malformed" (get_json raises), "null"
\* (get_json returns None), "array" (a list) or "object" (a dict, obj).
Json(kind, obj) == [kind |-> kind, obj |-> obj]

NoJson == Json("none", EmptyDict)

FullObject ==
    [k \in {"keyspace", "tablename", "columns", "table_a", "table_b",
            "join_key"} |-> PyStr(k)]

Bodies ==
    {Json("malformed", EmptyDict), Json("null", EmptyDict),
     Json("array", EmptyDict), Json("object", EmptyDict),
     Json("object", FullObject)}

\* dict.get(k, None)
dict_get(d, k) == IF k \in DOMAIN d THEN d[k] ELSE PyNone

(***************************************************************************)
(* The collaborators outside src/: unpack.table/join/union and the backend *)
(* operations quiver.get_table/join/union and admix.create_table.          *)
(***************************************************************************)
\* The keyword parameters each unpack function produces.
UnpackKeys(view) ==
    CASE view = "get_table" -> {"keyspace", "tablename"}
      [] view = "join" -> {"table_a", "table_b", "join_key"}
      [] OTHER -> {"table_a", "table_b"}

\* unpack.<op>(request_json): the parameter mapping, or an exception when
\* the body is no object or (valid = FALSE) fails validation.
unpack(view, rj, valid) ==
    IF rj.kind # "object" THEN Raised("request body is not an object")
    ELSE IF ~valid THEN Raised("invalid parameters")
    ELSE Returned([k \in UnpackKeys(view) |-> dict_get(rj.obj, k)])

\* What a backend operation can do: raise, or return a value.
BackendOutcomes ==
    {Raised("backend failure")}
    \cup {Returned(v) :
            v \in {PyStr("rows"), PyNone, NpInt(7), NpFloat("1.5"), PyOther,
                   PyDate(<<2018, 5, 17>>), PyDatetime(<<2018, 5, 17>>, 3661)}
                  \cup {PyTimedelta(d, s) : d \in -1 .. MaxDays, s \in {0, 45296}}}

(***************************************************************************)
(* The pieces of the four POST view functions.                             *)
(***************************************************************************)
\* create_table: metadata[k] = request_json.get(k, None) for the three keys
create_table_fill(rj) ==
    IF rj.kind # "object"
    THEN Raised("object has no attribute 'get'")
    ELSE Returned([k \in {"keyspace", "tablename", "columns"} |->
                      dict_get(rj.obj, k)])

\* The "data fill in" of a view: the parameter mapping before the backend
\* call; join and union add format = 'dict'.
fill_in(view, rj, valid) ==
    IF view = "create_table" THEN create_table_fill(rj)
    ELSE LET u == unpack(view, rj, valid)
         IN  IF u.raised \/ view = "get_table" THEN u
             ELSE Returned(Put(u.val, "format", PyStr("dict")))

\* (variant: the two success codes exchanged)
SuccessStatus_swapped(view) ==
    IF view = "create_table" THEN OK_STATUS ELSE OK_CREATE_STATUS

\* metadata['status'] on success
SuccessStatus(view) ==
    IF view = "create_table" THEN OK_CREATE_STATUS ELSE OK_STATUS

\* (variant: success is not set)
success_envelope_nosuccess(view, md) ==
    Put(md, "status", PyInt(SuccessStatus(view)))

\* metadata['success'] = True; metadata['status'] = ...
success_envelope(view, md) ==
    Put(Put(md, "success", PyTrue), "status", PyInt(SuccessStatus(view)))

\* The encoder of the success response: jsonify uses app.json_encoder,
\* create_table calls json.dumps(metadata) with no cls.
SuccessEncoder(view) ==
    IF view = "create_table" THEN "JSONEncoder" ELSE app_json_encoder

\* The success response: jsonify(metadata), or for create_table
\* Response(json.dumps(metadata), status=metadata['status'], ...)
success_response(view, md, body) ==
    IF view = "create_table" THEN json_response(md["status"].n, body)
    ELSE jsonify_response(body)

\* (variant: the error envelope also says success)
error_envelope_flagged(md, msg) ==
    Put(Put(Put(md, "status", PyInt(DEF_ERROR_CODE)), "error_message",
            PyStr(msg)), "success", PyTrue)

\* (variant: a fixed text instead of str(e))
error_envelope_nomsg(md, msg) ==
    Put(Put(md, "status", PyInt(DEF_ERROR_CODE)), "error_message",
        PyStr("Internal Server Error"))

\* (variant: the error envelope starts from an empty dict)
error_envelope_fresh(md, msg) ==
    Put(Put(EmptyDict, "status", PyInt(DEF_ERROR_CODE)), "error_message",
        PyStr(msg))

\* except Exception as e: metadata['status'] = DEF_ERROR_CODE;
\* metadata['error_message'] = str(e)
error_envelope(md, msg) ==
    Put(Put(md, "status", PyInt(DEF_ERROR_CODE)), "error_message",
        PyStr(msg))

\* The encoder of the error response: json.dumps(metadata) with no cls.
ErrorEncoder == "JSONEncoder"

(***************************************************************************)
(* The static bodies.                                                      *)
(***************************************************************************)
version_dict ==
    [status |-> PyInt(OK_STATUS), api_name |-> PyStr("Apollo"),
     version |-> VERSION, license |-> PyStr("Apache 2.0")]

about_dict ==
    [api_name |-> PyStr("Apollo"), version |-> VERSION,
     author_name |-> PyStr("Juan A. Aguilar-Jimenez"),
     author_email |-> PyStr("juanantonioaguilar@gmail.com"),
     project_repository |-> PyStr("https://github.com/jasset75/apollo.github"),
     documentation |-> PyStr("http://jasset75.github.io/apollo"),
     license |-> PyStr("Apache 2.0")]

\* (variant: the body names the requested path)
error_api_404_echo ==
    [status |-> PyInt(404),
     error_message |-> PyStr(req.path \o " not found."),
     api_name |-> PyStr("Apollo"), version |-> VERSION,
     author |-> PyStr("juanantonioaguilar@gmail.com"),
     license |-> PyStr("Apache 2.0")]

error_api_404 ==
    [status |-> PyInt(404),
     error_message |-> PyStr("Apollo API endpoint not found."),
     api_name |-> PyStr("Apollo"), version |-> VERSION,
     author |-> PyStr("juanantonioaguilar@gmail.com"),
     license |-> PyStr("Apache 2.0")]

\* The headers each route hands to add_response_headers.
route_headers(view) ==
    [h \in {"Location"} |->
        CASE view = "root" -> "/about"
          [] view = "version" -> "/version"
          [] view = "about" -> "/about"
          [] view = "get_table" -> "/get-table"
          [] view = "join" -> "/join"
          [] view = "union" -> "/union"
          [] OTHER -> "/create-table"]

\* (variant: the decorator also resets the status)
add_response_headers_status(r, headers) ==
    [r EXCEPT !.status = 200,
              !.headers = [h \in DOMAIN r.headers \cup DOMAIN headers |->
                              IF h \in DOMAIN headers THEN headers[h]
                              ELSE r.headers[h]]]

\* (variant: the decorator sets nothing)
add_response_headers_none(r, headers) == r

\* decorated_function: the response of the view with every configured
\* header set on it.
add_response_headers(r, headers) ==
    [r EXCEPT !.headers = [h \in DOMAIN r.headers \cup DOMAIN headers |->
                              IF h \in DOMAIN headers THEN headers[h]
                              ELSE r.headers[h]]]

NoExc == [raised |-> FALSE, msg |-> "", origin |-> "none", escaped |-> FALSE]

Caught(msg, origin) ==
    [raised |-> TRUE, msg |-> msg, origin |-> origin, escaped |-> FALSE]

NoDump ==
    [done |-> FALSE, view |-> "", phase |-> "", cls |-> "", input |-> EmptyDict,
     raised |-> FALSE, body |-> EmptyBody]

Dumped(view, phase, cls, input, d) ==
    [done |-> TRUE, view |-> view, phase |-> phase, cls |-> cls,
     input |-> input, raised |-> d.raised, body |-> d.body]

Init ==
    /\ pc = "idle"
    /\ req = [method |-> "GET", path |-> "/", body |-> NoJson]
    /\ route = ""
    /\ request_json = NoJson
    /\ metadata = EmptyDict
    /\ exc = NoExc
    /\ calls = 0
    /\ steps = <<>>
    /\ dump = NoDump
    /\ ret = NoResponse
    /\ resp = NoResponse
    /\ asscalar \in BOOLEAN
    /\ seen404 = {}
    /\ lasterr = [view |-> "", keys |-> {}]

(***************************************************************************)
(* The router: a request arrives and is matched against the routing table. *)
(***************************************************************************)
match(method, path) ==
    IF path \notin DOMAIN url_map THEN "page_not_found"
    ELSE IF method \notin url_map[path].methods THEN "method_not_allowed"
    ELSE url_map[path].view

dispatch_request ==
    /\ pc \in {"idle", "done"}
    /\ \E method \in Methods, path \in Paths :
        \E body \in IF method = "POST" THEN Bodies ELSE {NoJson} :
            /\ req' = [method |-> method, path |-> path, body |-> body]
            /\ route' = match(method, path)
    /\ pc' = "dispatched"
    /\ request_json' = NoJson
    /\ metadata' = EmptyDict
    /\ exc' = NoExc
    /\ calls' = 0
    /\ steps' = <<>>
    /\ dump' = NoDump
    /\ ret' = NoResponse
    /\ resp' = NoResponse
    /\ UNCHANGED <<asscalar, seen404, lasterr>>

\* A route exists for the path but not for the method: the router answers
\* 405 itself and no view runs.
method_not_allowed ==
    /\ pc = "dispatched"
    /\ route = "method_not_allowed"
    /\ resp' = Response("framework", 405, "text/html", EmptyBody,
                      [h \in {"Content-Type"} |-> "text/html"])
    /\ pc' = "done"
    /\ UNCHANGED <<req, route, request_json, metadata, exc, calls, steps, dump,
                   ret, asscalar, seen404, lasterr>>

\* @app.errorhandler(404): jsonify(error_api_404), returned with no status
\* of its own and not wrapped by add_response_headers.
page_not_found ==
    /\ pc = "dispatched"
    /\ route = "page_not_found"
    /\ LET d == json_dumps(error_api_404, app_json_encoder, asscalar)
       IN  /\ resp' = [jsonify_response(d.body) EXCEPT !.from = "errorhandler"]
           /\ seen404' = seen404 \cup {<<req.path, d.body>>}
    /\ pc' = "done"
    /\ UNCHANGED <<req, route, request_json, metadata, exc, calls, steps, dump,
                   ret, asscalar, lasterr>>

(***************************************************************************)
(* The GET views.                                                          *)
(***************************************************************************)
StaticView(view, r) ==
    /\ pc = "dispatched"
    /\ route = view
    /\ ret' = r
    /\ pc' = "returned"
    /\ UNCHANGED <<req, route, request_json, metadata, exc, calls, steps, dump,
                   resp, asscalar, seen404, lasterr>>

\* redirect(url_for("about"))
root == StaticView("root", redirect("/about"))

version ==
    StaticView("version",
               jsonify_response(json_dumps(version_dict, app_json_encoder,
                                           asscalar).body))

about ==
    StaticView("about",
               jsonify_response(json_dumps(about_dict, app_json_encoder,
                                           asscalar).body))

(***************************************************************************)
(* The POST views, one step at a time: get_json, data fill in, backend     *)
(* call, success response; the except block from any of them.              *)
(***************************************************************************)
\* (variant: a failed backend call is tried again)
OnException_retry(origin) == IF origin = "call" THEN "unpacked" ELSE "except"

\* Where an exception raised inside the try block takes the view: the
\* except block, whatever raised it.
OnException(origin) == "except"

\* metadata = {}; request_json = request.get_json()
get_json(view) ==
    /\ pc = "dispatched"
    /\ route = view
    /\ req.method = "POST"
    /\ metadata' = EmptyDict
    /\ steps' = Append(steps, "parse")
    /\ IF req.body.kind = "malformed"
       THEN /\ exc' = Caught("400 Bad Request", "parse")
            /\ pc' = OnException("parse")
            /\ UNCHANGED request_json
       ELSE /\ request_json' = req.body
            /\ pc' = "parsed"
            /\ UNCHANGED exc
    /\ UNCHANGED <<req, route, calls, dump, ret, resp, asscalar, seen404,
                   lasterr>>

\* data fill in
data_fill_in(view) ==
    /\ pc = "parsed"
    /\ route = view
    /\ steps' = Append(steps, "unpack")
    /\ \E valid \in BOOLEAN :
        LET f == fill_in(view, request_json, valid)
        IN  IF f.raised
            THEN /\ exc' = Caught(f.msg, "unpack")
                 /\ pc' = OnException("unpack")
                 /\ UNCHANGED metadata
            ELSE /\ metadata' = f.val
                 /\ pc' = "unpacked"
                 /\ UNCHANGED exc
    /\ UNCHANGED <<req, route, request_json, calls, dump, ret, resp, asscalar,
                   seen404, lasterr>>

\* spark call: metadata['data'] = <backend operation>(**metadata)
spark_call(view) ==
    /\ pc = "unpacked"
    /\ route = view
    /\ steps' = Append(steps, "call")
    /\ calls' = calls + 1
    /\ \E out \in BackendOutcomes :
        IF out.raised
        THEN /\ exc' = Caught(out.msg, "call")
             /\ pc' = OnException("call")
             /\ UNCHANGED metadata
        ELSE /\ metadata' = Put(metadata, "data", out.val)
             /\ pc' = "called"
             /\ UNCHANGED exc
    /\ UNCHANGED <<req, route, request_json, dump, ret, resp, asscalar, seen404,
                   lasterr>>

\* return data: success and status are set and the envelope is serialized
return_data(view) ==
    /\ pc = "called"
    /\ route = view
    /\ steps' = Append(steps, "respond")
    /\ LET md == success_envelope(view, metadata)
           d == json_dumps(md, SuccessEncoder(view), asscalar)
       IN  /\ metadata' = md
           /\ dump' = Dumped(view, "success", SuccessEncoder(view), md, d)
           /\ IF d.raised
              THEN /\ exc' = Caught(d.msg, "serialize")
                   /\ pc' = OnException("serialize")
                   /\ UNCHANGED ret
              ELSE /\ ret' = success_response(view, md, d.body)
                   /\ pc' = "returned"
                   /\ UNCHANGED exc
    /\ UNCHANGED <<req, route, request_json, calls, resp, asscalar, seen404,
                   lasterr>>

\* except Exception as e: the error envelope is serialized with json.dumps;
\* an exception of that call leaves the view (and the decorator) uncaught,
\* so the program produces no response.
except_block(view) ==
    /\ pc = "except"
    /\ route = view
    /\ steps' = Append(steps, "error")
    /\ LET md == error_envelope(metadata, exc.msg)
           d == json_dumps(md, ErrorEncoder, asscalar)
       IN  /\ metadata' = md
           /\ dump' = Dumped(view, "error", ErrorEncoder, md, d)
           /\ IF d.raised
              THEN /\ exc' = [exc EXCEPT !.escaped = TRUE]
                   /\ pc' = "done"
                   /\ UNCHANGED ret
              ELSE /\ ret' = json_response(md["status"].n, d.body)
                   /\ pc' = "returned"
                   /\ UNCHANGED exc
    /\ UNCHANGED <<req, route, request_json, calls, resp, asscalar, seen404,
                   lasterr>>

PostView(view) ==
    \/ get_json(view)
    \/ data_fill_in(view)
    \/ spark_call(view)
    \/ return_data(view)
    \/ except_block(view)

get_table == PostView("get_table")

join == PostView("join")

union == PostView("union")

create_table == PostView("create_table")

(***************************************************************************)
(* The decorator: every view of the routing table is wrapped by it.        *)
(***************************************************************************)
decorated_function ==
    /\ pc = "returned"
    /\ resp' = add_response_headers(ret, route_headers(route))
    /\ pc' = "done"
    /\ lasterr' =
         IF route \in PostViews /\ ret.status = DEF_ERROR_CODE
         THEN [view |-> route, keys |-> DOMAIN ret.body]
         ELSE lasterr
    /\ UNCHANGED <<req, route, request_json, metadata, exc, calls, steps, dump,
                   ret, asscalar, seen404>>

Next ==
    \/ dispatch_request
    \/ method_not_allowed
    \/ page_not_found
    \/ root
    \/ version
    \/ about
    \/ get_table
    \/ join
    \/ union
    \/ create_table
    \/ decorated_function

Spec == Init /\ [][Next]_vars

(***************************************************************************)
(* Properties.                                                             *)
(***************************************************************************)
\* A POST view has returned a response and the decorator has passed it on.
PostResponse == pc = "done" /\ route \in PostViews /\ resp.from = "handler"

\* A JSON response of this program (a view or the 404 handler).
JsonResponse ==
    /\ pc = "done"
    /\ resp.from \in {"handler", "errorhandler"}
    /\ resp.mimetype = "application/json"

SuccessTrue(b) == "success" \in DOMAIN b /\ b["success"] = J_true

\* data together with success = true, and nothing of the error group
SuccessShape(b) ==
    "data" \in DOMAIN b /\ SuccessTrue(b) /\ "error_message" \notin DOMAIN b

\* error_message together with success absent or false, and no data
ErrorShape(b) ==
    "error_message" \in DOMAIN b /\ "data" \notin DOMAIN b /\ ~SuccessTrue(b)

C2_ErrorEnvelope ==
    (pc = "done" /\ route \in PostViews /\ exc.origin \in {"unpack", "call"}) =>
        /\ resp.from = "handler"
        /\ ~exc.escaped
        /\ resp.status = 500
        /\ {"status", "error_message"} \subseteq DOMAIN resp.body
        /\ resp.body["status"] = J_num(500)
        /\ resp.body["error_message"] = J_str(exc.msg)
        /\ "data" \notin DOMAIN resp.body
        /\ ~SuccessTrue(resp.body)

C2_Witness ==
    /\ pc = "done"
    /\ route = "join"
    /\ exc.origin = "call"
    /\ resp.status = 500
    /\ resp.body["error_message"] = J_str("backend failure")

\* C3 as stated: every JSON body the server produces, on any route, holds
\* exactly one of the two groups (data with success = true, or
\* error_message with success absent or false).
C3_OneGroupEveryResponse ==
    JsonResponse => (SuccessShape(resp.body) \/ ErrorShape(resp.body))

\* C3 as amended: every body returned by a POST view or by the 404 handler
\* holds exactly one of the two groups; the bodies of /version and /about
\* hold neither (no data, no success, no error_message).
C3_OneGroupEnvelope ==
    JsonResponse =>
        IF route \in {"version", "about"}
        THEN DOMAIN resp.body \cap {"data", "success", "error_message"} = {}
        ELSE /\ SuccessShape(resp.body) \/ ErrorShape(resp.body)
             /\ ~(SuccessShape(resp.body) /\ ErrorShape(resp.body))

C3_Witness ==
    /\ PostResponse
    /\ route = "union"
    /\ exc.origin = "unpack"
    /\ ErrorShape(resp.body)

\* C4 as stated: the 500 body of a POST view has the same key set whatever
\* raised, so it has the key set of that view's latest 500 body.
C4_UniformErrorKeys ==
    (pc = "returned" /\ route \in PostViews /\ ret.status = DEF_ERROR_CODE
        /\ lasterr.view = route) =>
        DOMAIN ret.body = lasterr.keys

\* The keys of a view's parameter mapping when the backend is called.
C4_ParamKeys(view) ==
    CASE view = "create_table" -> {"keyspace", "tablename", "columns"}
      [] view = "get_table" -> UnpackKeys(view)
      [] OTHER -> UnpackKeys(view) \cup {"format"}

\* C4 as amended: the 500 body of a POST view always has status and
\* error_message and never data or success; its key set is exactly
\* {status, error_message} when reading or unpacking the request raised, and
\* that set plus the keys of the parameter mapping when the backend raised.
C4_ErrorKeysByOrigin ==
    (PostResponse /\ resp.status = DEF_ERROR_CODE
        /\ exc.origin \in {"parse", "unpack", "call"}) =>
        /\ "data" \notin DOMAIN resp.body
        /\ "success" \notin DOMAIN resp.body
        /\ exc.origin \in {"parse", "unpack"} =>
             DOMAIN resp.body = {"status", "error_message"}
        /\ exc.origin = "call" =>
             DOMAIN resp.body = C4_ParamKeys(route) \cup {"status", "error_message"}

C4_Witness ==
    /\ PostResponse
    /\ route = "create_table"
    /\ exc.origin = "call"
    /\ lasterr = [view |-> "create_table",
                  keys |-> {"keyspace", "tablename", "columns", "status",
                            "error_message"}]

\* C5 as stated: every response the server produces (by a view or by the
\* 404 handler) carries a Location header equal to the path of the request.
C5_LocationIsRequestPath ==
    (pc = "done" /\ resp.from \in {"handler", "errorhandler"}) =>
        /\ "Location" \in DOMAIN resp.headers
        /\ resp.headers["Location"] = req.path

\* C5 as amended: every response returned by a decorated view carries a
\* Location header, equal to the request path for every route but "/",
\* where it is "/about"; the response of the 404 handler carries no
\* Location header.
C5_LocationOfDecoratedViews ==
    pc = "done" =>
        /\ resp.from = "handler" =>
             /\ "Location" \in DOMAIN resp.headers
             /\ resp.headers["Location"] =
                  IF route = "root" THEN "/about" ELSE req.path
        /\ resp.from = "errorhandler" => "Location" \notin DOMAIN resp.headers

C5_Witness ==
    /\ PostResponse
    /\ route = "get_table"
    /\ resp.status = 500
    /\ resp.headers["Location"] = "/get-table"

\* C6: the response to a path outside the routing table has status = 404
\* and api_name = 'Apollo' in its body, and the body is the same for every
\* such path.
C6_NotFoundBody ==
    /\ \A x \in seen404 : \A y \in seen404 : x[2] = y[2]
    /\ (pc = "done" /\ route = "page_not_found") =>
         /\ resp.from = "errorhandler"
         /\ <<req.path, resp.body>> \in seen404
         /\ resp.body["status"] = J_num(404)
         /\ resp.body["api_name"] = J_str("Apollo")

C6_Witness ==
    /\ pc = "done"
    /\ route = "page_not_found"
    /\ {x[1] : x \in seen404} = {"/nope", "/get-table/x"}

\* C7: the decorated response has the status code and the body of the
\* response made from the view's return value; only the configured headers
\* differ.
C7_DecoratorFrame ==
    (pc = "done" /\ resp.from = "handler") =>
        /\ resp.status = ret.status
        /\ resp.body = ret.body
        /\ resp.mimetype = ret.mimetype
        /\ \A h \in DOMAIN ret.headers \ DOMAIN route_headers(route) :
             h \in DOMAIN resp.headers /\ resp.headers[h] = ret.headers[h]
        /\ DOMAIN resp.headers \subseteq
             DOMAIN ret.headers \cup DOMAIN route_headers(route)

C7_Witness ==
    /\ PostResponse
    /\ route = "create_table"
    /\ ret.status = 201
    /\ "Location" \notin DOMAIN ret.headers
    /\ "Location" \in DOMAIN resp.headers

\* The ISO-8601 text of a date, datetime or duration value.
C8_Iso(v) ==
    CASE v.kind = "datetime" -> datetime_isoformat(v.ymd, v.sec)
      [] v.kind = "date" -> date_isoformat(v.ymd)
      [] OTHER -> time_isoformat(v.sec)

\* The keys of d holding a date, a datetime or a duration that has a time
\* of day (a non-negative one).
C8_Temporal(d) ==
    {k \in DOMAIN d :
        \/ d[k].kind \in {"datetime", "date"}
        \/ d[k].kind = "timedelta" /\ d[k].n >= 0}

\* C8: on the success and the error path of every POST view, an envelope
\* holding a date, datetime or duration value is serialized by the
\* customized encoder without raising, the value as its ISO-8601 string.
C8_TemporalSerialized ==
    (dump.done /\ C8_Temporal(dump.input) # {}) =>
        /\ dump.cls = "CustomizedEncoder"
        /\ ~dump.raised
        /\ \A k \in C8_Temporal(dump.input) :
             dump.body[k] = J_str(C8_Iso(dump.input[k]))

StepRank(s) ==
    CASE s = "parse" -> 1
      [] s = "unpack" -> 2
      [] s = "call" -> 3
      [] s = "respond" -> 4
      [] OTHER -> 5

\* C9: within one POST request the steps run in the order parse, unpack,
\* backend call, build response; the backend is invoked at most once, never
\* when parsing or unpacking raised, and never again after it raised.
C9_SingleShot ==
    /\ calls <= 1
    /\ calls = Cardinality({i \in DOMAIN steps : steps[i] = "call"})
    /\ \A i \in DOMAIN steps : \A j \in DOMAIN steps :
         i < j => StepRank(steps[i]) < StepRank(steps[j])
    /\ calls = 1 => SubSeq(steps, 1, 3) = <<"parse", "unpack", "call">>
    /\ exc.origin \in {"parse", "unpack"} => calls = 0
    /\ PostResponse => steps[Len(steps)] \in {"respond", "error"}

C9_Witness ==
    /\ PostResponse
    /\ exc.origin = "call"
    /\ calls = 1
    /\ steps = <<"parse", "unpack", "call", "error">>

\* C10: in every response of a POST view the status field of the body is
\* the HTTP status code: 200 on success of /get-table, /join and /union,
\* 201 on success of /create-table, 500 after a caught exception.
C10_StatusMatchesHttp ==
    PostResponse =>
        /\ "status" \in DOMAIN resp.body
        /\ resp.body["status"] = J_num(resp.status)
        /\ resp.status =
             IF exc.raised THEN 500
             ELSE IF route = "create_table" THEN 201 ELSE 200

C10_Witness ==
    /\ PostResponse
    /\ route = "get_table"
    /\ ~exc.raised
    /\ resp.status = 200
    /\ resp.body["status"] = J_num(200)

====
